---------------------------- MODULE Spec2Model ----------------------------
(***************************************************************************)
(* Model of the C extension string bridge, src/main/c/cext/string.c.       *)
(*                                                                         *)
(* One String object (the handle under test) is followed through the       *)
(* rb_str_* entry points.  The C functions of string.c are translated      *)
(* statement by statement; the runtime primitives they delegate to         *)
(* (polyglot_invoke(RUBY_CEXT, ...), RUBY_INVOKE(...), header macros) are  *)
(* the host_* definitions.  rb_raise is a non-local exit: a raised call    *)
(* keeps whatever the statements before the raise already did.             *)
(***************************************************************************)
EXTENDS Integers, Sequences, FiniteSets, TLC

VARIABLES h, pre, last, rawptr, cfg, ext

vars == <<h, pre, last, rawptr, cfg, ext>>

-----------------------------------------------------------------------------
(* Bounds *)

MaxCap == 3        \* largest storage size explored
MaxCat == 2        \* longest byte sequence passed to rb_str_cat / constructors

(* Program constants *)

INT_MAX == 2147483647
\* the bytes foreign code passes in: one 7-bit byte, one with the high bit set
Byte == {65, 255}

\* a const char* argument: NULL, or the address of the bytes mem
NULL == [null |-> TRUE, mem |-> <<>>]

CharPtr(s) == [null |-> FALSE, mem |-> s]

\* a null rb_encoding*
NoEncoding == "NULL"
Encodings == {"US-ASCII", "UTF-8", "ASCII-8BIT", "ISO-8859-1"}

\* the encodings a locale or a file system names
LocaleEncodings == {"US-ASCII", "UTF-8", "ISO-8859-1"}

-----------------------------------------------------------------------------
(* Generic helpers *)

Max(a, b) == IF a >= b THEN a ELSE b

Min(a, b) == IF a <= b THEN a ELSE b

Zeros(n) == [i \in 1..n |-> 0]

SeqsOver(S, n) == UNION {[1..k -> S] : k \in 0..n}

SeqsUpTo(n) == SeqsOver(Byte, n)

Prefix(s, n) == SubSeq(s, 1, n)

-----------------------------------------------------------------------------
(* Errors raised through rb_raise *)

NoErr == [kind |-> "none", msg |-> "", requested |-> 0, capacity |-> 0]

ArgError(msg) == [kind |-> "rb_eArgError", msg |-> msg, requested |-> 0, capacity |-> 0]

RuntimeError(length, capacity) ==
    [kind |-> "rb_eRuntimeError", msg |-> "probable buffer overflow",
     requested |-> length, capacity |-> capacity]

rb_raise(m, e) == [m EXCEPT !.err = e]

Raised(m) == m.err.kind # "none"

-----------------------------------------------------------------------------
(* The String object.  bytes is the whole storage (Len(bytes) is the       *)
(* capacity), len the logical length.  While a call runs the object also   *)
(* carries sid, the number of times its storage was invalidated during the *)
(* call, err, the pending exception, ub, set when the call touched memory  *)
(* through a pointer that was no longer valid, oid, 0 for the object the   *)
(* call started with and bumped when a primitive answers with a newly      *)
(* allocated object instead, and conv, set once the transcoder was run.    *)

NewString(bytes, enc) ==
    [bytes |-> bytes, len |-> Len(bytes), enc |-> enc, cr |-> "UNKNOWN", tainted |-> FALSE]

Enter(s) ==
    [bytes |-> s.bytes, len |-> s.len, enc |-> s.enc, cr |-> s.cr, tainted |-> s.tainted,
     sid |-> 0, err |-> NoErr, ub |-> FALSE, oid |-> 0, conv |-> FALSE]

Leave(m) ==
    [bytes |-> m.bytes, len |-> m.len, enc |-> m.enc, cr |-> m.cr, tainted |-> m.tainted]

Content(s) == Prefix(s.bytes, s.len)

RSTRING_LEN(m) == m.len

ENC_CODERANGE_CLEAR(m) == [m EXCEPT !.cr = "UNKNOWN", !.sid = @ + 1]

OBJ_TAINT(m) == [m EXCEPT !.tainted = TRUE]

-----------------------------------------------------------------------------
(* Runtime primitives reached through polyglot_invoke / RUBY_INVOKE *)

host_rb_str_new_nul(m, length) ==
    Enter(NewString(Zeros(length), "ASCII-8BIT"))

host_rb_str_new_native(m, string, length) ==
    Enter(NewString(Prefix(string.mem, length), "ASCII-8BIT"))

host_rb_str_capacity(m) == Len(m.bytes)

host_rb_str_set_len(m, length) == [m EXCEPT !.len = length]

host_rb_str_resize(m, length) ==
    IF length < 0
    THEN rb_raise(m, RuntimeError(length, Len(m.bytes)))
    ELSE [m EXCEPT !.bytes = IF length > Len(@) THEN @ \o Zeros(length - Len(@)) ELSE @,
                   !.len = length,
                   !.cr = "UNKNOWN",
                   !.sid = @ + 1]

host_byteslice(m, beg, len) ==
    Enter([NewString(SubSeq(Content(m), beg + 1, Min(beg + len, m.len)), m.enc)
             EXCEPT !.tainted = m.tainted])

host_replace(m, by) ==
    [m EXCEPT !.bytes = Content(by),
              !.len = by.len,
              !.enc = by.enc,
              !.cr = "UNKNOWN",
              !.sid = @ + 1]

\* what a scan of the bytes under the tagged encoding reports
ScanCoderange(s) ==
    IF \A i \in 1..s.len : s.bytes[i] < 128 THEN "7BIT"
    ELSE IF s.enc \in {"ASCII-8BIT", "ISO-8859-1"} THEN "VALID"
    ELSE "BROKEN"

host_rb_enc_str_coderange(m) == [m EXCEPT !.cr = ScanCoderange(m)]

\* NATIVE_RSTRING_PTR: the address of the current storage
NATIVE_RSTRING_PTR(m) == m.sid

Overwrite(bytes, off, src, n) ==
    [i \in 1..Len(bytes) |-> IF i > off /\ i <= off + n THEN src[i - off] ELSE bytes[i]]

\* memcpy(p + off, src, n) where p was obtained from NATIVE_RSTRING_PTR.
\* A copy through a pointer to storage that was since replaced, or past the
\* end of the storage, is undefined: it may or may not land in the string.
memcpy(m, p, off, src, n) ==
    IF p = m.sid /\ off + n <= Len(m.bytes)
    THEN {[m EXCEPT !.bytes = Overwrite(@, off, src, n)]}
    ELSE {[m EXCEPT !.ub = TRUE],
          [m EXCEPT !.ub = TRUE, !.bytes = Overwrite(@, off, src, n)]}

-----------------------------------------------------------------------------
(* string.c *)

RSTRING_PTR_IMPL(m) == NATIVE_RSTRING_PTR(m)

rb_str_new(m, string, length) ==
    IF length < 0
    THEN rb_raise(m, ArgError("negative string size (or size too big)"))
    ELSE IF string = NULL
         THEN host_rb_str_new_nul(m, length)
         ELSE host_rb_str_new_native(m, string, length)

rb_str_capacity(m) == host_rb_str_capacity(m)

\* rb_str_set_len without the upper bound of its check
rb_str_set_len_unchecked(m, length) ==
    LET capacity == rb_str_capacity(m)
    IN  IF length < 0
        THEN rb_raise(m, RuntimeError(length, capacity))
        ELSE host_rb_str_set_len(m, length)

\* rb_str_set_len comparing with >= instead of >
rb_str_set_len_offbyone(m, length) ==
    LET capacity == rb_str_capacity(m)
    IN  IF length >= capacity \/ length < 0
        THEN rb_raise(m, RuntimeError(length, capacity))
        ELSE host_rb_str_set_len(m, length)

rb_str_set_len(m, length) ==
    LET capacity == rb_str_capacity(m)
    IN  IF length > capacity \/ length < 0
        THEN rb_raise(m, RuntimeError(length, capacity))
        ELSE host_rb_str_set_len(m, length)

rb_str_buf_new(m, capacity) ==
    LET str == rb_str_new(m, NULL, capacity)
    IN  IF Raised(str) THEN str ELSE rb_str_set_len(str, 0)

\* rb_str_resize refusing a length beyond the capacity, as rb_str_set_len does
rb_str_resize_checked(m, length) ==
    IF length > rb_str_capacity(m) \/ length < 0
    THEN rb_raise(m, RuntimeError(length, rb_str_capacity(m)))
    ELSE host_rb_str_resize(m, length)

rb_str_resize(m, length) == host_rb_str_resize(m, length)

\* rb_str_cat copying at the length read after the resize
rb_str_cat_late_length(m, to_concat, length) ==
    IF length = 0 THEN {m}
    ELSE IF length < 0
    THEN {rb_raise(m, ArgError("negative string size (or size too big)"))}
    ELSE LET old_length == RSTRING_LEN(m)
             m1 == rb_str_resize(m, old_length + length)
         IN  IF Raised(m1) THEN {m1}
             ELSE memcpy(m1, RSTRING_PTR_IMPL(m1), RSTRING_LEN(m1), to_concat, length)

\* rb_str_cat without the check for a negative length
rb_str_cat_no_negative_check(m, to_concat, length) ==
    IF length = 0 THEN {m}
    ELSE LET old_length == RSTRING_LEN(m)
             m1 == rb_str_resize(m, old_length + length)
         IN  IF Raised(m1) THEN {m1}
             ELSE memcpy(m1, RSTRING_PTR_IMPL(m1), old_length, to_concat, length)

\* rb_str_cat taking the raw pointer before it resizes
rb_str_cat_early_pointer(m, to_concat, length) ==
    IF length = 0 THEN {m}
    ELSE IF length < 0
    THEN {rb_raise(m, ArgError("negative string size (or size too big)"))}
    ELSE LET old_length == RSTRING_LEN(m)
             p == RSTRING_PTR_IMPL(m)
             m1 == rb_str_resize(m, old_length + length)
         IN  IF Raised(m1) THEN {m1}
             ELSE memcpy(m1, p, old_length, to_concat, length)

\* old_length is an int in the source; the lengths explored are far below
\* 2^31, where the conversion from long changes nothing.
rb_str_cat(m, to_concat, length) ==
    IF length = 0 THEN {m}
    ELSE IF length < 0
    THEN {rb_raise(m, ArgError("negative string size (or size too big)"))}
    ELSE LET old_length == RSTRING_LEN(m)
             m1 == rb_str_resize(m, old_length + length)
         IN  IF Raised(m1) THEN {m1}
             ELSE memcpy(m1, RSTRING_PTR_IMPL(m1), old_length, to_concat, length)

\* rb_str_modify doing nothing
rb_str_modify_noop(m) == m

rb_str_modify(m) == ENC_CODERANGE_CLEAR(m)

\* rb_str_modify_expand leaving the length where the resize put it
rb_str_modify_expand_no_set_len(m, expand) ==
    LET len == RSTRING_LEN(m)
    IN  IF expand < 0
        THEN rb_raise(m, ArgError("negative expanding string size"))
        ELSE IF expand > INT_MAX - len
        THEN rb_raise(m, ArgError("string size too big"))
        ELSE LET m1 == IF expand > 0 THEN rb_str_resize(m, len + expand) ELSE m
             IN  IF Raised(m1) THEN m1 ELSE ENC_CODERANGE_CLEAR(m1)

rb_str_modify_expand(m, expand) ==
    LET len == RSTRING_LEN(m)
    IN  IF expand < 0
        THEN rb_raise(m, ArgError("negative expanding string size"))
        ELSE IF expand > INT_MAX - len
        THEN rb_raise(m, ArgError("string size too big"))
        ELSE LET m1 == IF expand > 0
                       THEN LET r == rb_str_resize(m, len + expand)
                            IN  IF Raised(r) THEN r ELSE rb_str_set_len(r, len)
                       ELSE m
             IN  IF Raised(m1) THEN m1 ELSE ENC_CODERANGE_CLEAR(m1)

rb_str_subseq(m, beg, len) == host_byteslice(m, beg, len)

rb_str_replace(m, by) == host_replace(m, by)

\* rb_str_drop_bytes with the arguments of rb_str_subseq swapped
rb_str_drop_bytes_swapped(m, len) ==
    LET olen == RSTRING_LEN(m)
        n == IF len > olen THEN olen ELSE len
    IN  rb_str_replace(m, rb_str_subseq(m, olen - n, n))

rb_str_drop_bytes(m, len) ==
    LET olen == RSTRING_LEN(m)
        n == IF len > olen THEN olen ELSE len
    IN  rb_str_replace(m, rb_str_subseq(m, n, olen - n))

\* strlen over the NUL-terminated memory at string
strlen(string) ==
    IF \E i \in 1..Len(string.mem) : string.mem[i] = 0
    THEN (CHOOSE i \in 1..Len(string.mem) :
            string.mem[i] = 0 /\ \A j \in 1..(i - 1) : string.mem[j] # 0) - 1
    ELSE Len(string.mem)

rb_enc_get(m) == m.enc

rb_enc_associate(m, enc) == [m EXCEPT !.enc = enc]

rb_enc_associate_index(m, idx) == rb_enc_associate(m, idx)

rb_usascii_encoding == "US-ASCII"

rb_ascii8bit_encindex == "ASCII-8BIT"

rb_enc_str_new(ptr, len, enc) ==
    IF len < 0
    THEN rb_raise(Enter(NewString(<<>>, enc)), ArgError("negative string size (or size too big)"))
    ELSE IF ptr = NULL
         THEN Enter(NewString(Zeros(len), enc))
         ELSE Enter(NewString(Prefix(ptr.mem, len), enc))

\* the transcoder on one byte: the bytes it writes, or <<-1>> when the byte
\* is invalid in from or has no counterpart in to
TranscodeByte(b, from, to) ==
    IF b < 128 THEN <<b>>
    ELSE IF from = "ISO-8859-1" /\ to = "UTF-8" THEN <<192 + (b \div 64), 128 + (b % 64)>>
    ELSE <<-1>>

RECURSIVE Transcode(_, _, _)
Transcode(bytes, from, to) ==
    IF bytes = <<>> THEN <<>>
    ELSE TranscodeByte(Head(bytes), from, to) \o Transcode(Tail(bytes), from, to)

host_rb_str_conv_enc_opts(m, from, to, ecflags) ==
    LET out == Transcode(Content(m), from, to)
    IN  IF \E i \in 1..Len(out) : out[i] = -1
        THEN [rb_raise(m, [kind |-> "EncodingConversionError", msg |-> "",
                           requested |-> 0, capacity |-> 0]) EXCEPT !.conv = TRUE]
        ELSE [m EXCEPT !.bytes = out, !.len = Len(out), !.enc = to, !.cr = "UNKNOWN",
                       !.oid = @ + 1, !.conv = TRUE]

rb_str_conv_enc_opts(str, from, to, ecflags) ==
    IF to = NoEncoding THEN str
    ELSE LET from1 == IF from = NoEncoding THEN rb_enc_get(str) ELSE from
         IN  IF from1 = to THEN str
             ELSE host_rb_str_conv_enc_opts(str, from1, to, ecflags)

rb_str_conv_enc(string, from, to) == rb_str_conv_enc_opts(string, from, to, 0)

rb_tainted_str_new_with_enc(ptr, len, enc) ==
    LET str == rb_enc_str_new(ptr, len, enc)
    IN  IF Raised(str) THEN str ELSE OBJ_TAINT(str)

\* rb_external_str_with_enc falling back to binary when the bytes ARE 7-bit
rb_external_str_with_enc_flipped(str, eenc, default_internal) ==
    IF eenc = rb_usascii_encoding
    THEN LET scanned == host_rb_enc_str_coderange(str)
         IN  IF scanned.cr = "7BIT"
             THEN rb_enc_associate_index(scanned, rb_ascii8bit_encindex)
             ELSE rb_str_conv_enc(rb_enc_associate(scanned, eenc), eenc, default_internal)
    ELSE rb_str_conv_enc(rb_enc_associate(str, eenc), eenc, default_internal)

rb_external_str_with_enc(str, eenc, default_internal) ==
    IF eenc = rb_usascii_encoding
    THEN LET scanned == host_rb_enc_str_coderange(str)
         IN  IF scanned.cr # "7BIT"
             THEN rb_enc_associate_index(scanned, rb_ascii8bit_encindex)
             ELSE rb_str_conv_enc(rb_enc_associate(scanned, eenc), eenc, default_internal)
    ELSE rb_str_conv_enc(rb_enc_associate(str, eenc), eenc, default_internal)

rb_external_str_new_with_enc(ptr, len, eenc, default_internal) ==
    LET str == rb_tainted_str_new_with_enc(ptr, len, eenc)
    IN  IF Raised(str) THEN str ELSE rb_external_str_with_enc(str, eenc, default_internal)

rb_external_str_new(string, len, c) ==
    rb_external_str_new_with_enc(string, len, c.external, c.internal)

rb_external_str_new_cstr(string, c) ==
    rb_external_str_new_with_enc(string, strlen(string), c.external, c.internal)

rb_locale_str_new(string, len, c) ==
    rb_external_str_new_with_enc(string, len, c.locale, c.internal)

rb_locale_str_new_cstr(string, c) ==
    rb_external_str_new_with_enc(string, strlen(string), c.locale, c.internal)

rb_filesystem_str_new(string, len, c) ==
    rb_external_str_new_with_enc(string, len, c.filesystem, c.internal)

rb_filesystem_str_new_cstr(string, c) ==
    rb_external_str_new_with_enc(string, strlen(string), c.filesystem, c.internal)

-----------------------------------------------------------------------------
(* State machine of the handle under test *)

NoCall == [op |-> "none", n |-> 0, b |-> <<>>, err |-> NoErr, sid |-> 0, ub |-> FALSE]

NoExt == [op |-> "none"]

Cfg0 == [external |-> "UTF-8", internal |-> NoEncoding, locale |-> "UTF-8", filesystem |-> "UTF-8"]

Init ==
    /\ h = NewString(<<>>, "ASCII-8BIT")
    /\ pre = h
    /\ last = NoCall
    /\ rawptr = "none"
    /\ cfg = Cfg0
    /\ ext = NoExt

\* the call returned (or raised) leaving the object as m
Return(op, n, b, m) ==
    /\ Len(m.bytes) <= MaxCap
    /\ pre' = h
    /\ h' = Leave(m)
    /\ last' = [op |-> op, n |-> n, b |-> b, err |-> m.err, sid |-> m.sid, ub |-> m.ub]
    /\ rawptr' = IF rawptr = "valid" /\ m.sid > 0 THEN "stale" ELSE rawptr
    /\ UNCHANGED <<cfg, ext>>

\* a constructor returned a new object, which becomes the handle under test
ReturnNew(op, n, b, m) ==
    /\ Len(m.bytes) <= MaxCap
    /\ pre' = h
    /\ h' = Leave(m)
    /\ last' = [op |-> op, n |-> n, b |-> b, err |-> m.err, sid |-> m.sid, ub |-> m.ub]
    /\ rawptr' = IF Raised(m) THEN rawptr ELSE "none"
    /\ UNCHANGED <<cfg, ext>>

Do_rb_str_new ==
    \E length \in -1..MaxCat :
      \E string \in {NULL} \cup {CharPtr(s) : s \in {t \in SeqsUpTo(MaxCat) : Len(t) = Max(length, 0)}} :
        ReturnNew("rb_str_new", length, string.mem, rb_str_new(Enter(h), string, length))

Do_rb_str_buf_new ==
    \E capacity \in -1..MaxCap :
        ReturnNew("rb_str_buf_new", capacity, <<>>, rb_str_buf_new(Enter(h), capacity))

Do_rb_str_cat ==
    \E length \in -1..MaxCat :
      \E to_concat \in {s \in SeqsUpTo(MaxCat) : Len(s) = Max(length, 0)} :
        \E m \in rb_str_cat(Enter(h), to_concat, length) :
            Return("rb_str_cat", length, to_concat, m)

Do_rb_str_resize ==
    \E length \in -1..MaxCap :
        Return("rb_str_resize", length, <<>>, rb_str_resize(Enter(h), length))

Do_rb_str_set_len ==
    \E length \in -1..(MaxCap + 1) :
        Return("rb_str_set_len", length, <<>>, rb_str_set_len(Enter(h), length))

Do_rb_str_modify ==
    Return("rb_str_modify", 0, <<>>, rb_str_modify(Enter(h)))

Do_rb_str_modify_expand ==
    \E expand \in (-1..MaxCap) \cup (IF h.len > 0 THEN {INT_MAX - h.len + 1, INT_MAX} ELSE {}) :
        Return("rb_str_modify_expand", expand, <<>>, rb_str_modify_expand(Enter(h), expand))

Do_rb_str_replace ==
    \E b \in SeqsUpTo(MaxCat) :
        Return("rb_str_replace", 0, b,
               rb_str_replace(Enter(h), Enter(NewString(b, "ASCII-8BIT"))))

Do_rb_str_drop_bytes ==
    \E len \in 0..(MaxCap + 1) :
        Return("rb_str_drop_bytes", len, <<>>, rb_str_drop_bytes(Enter(h), len))

\* foreign code asks for the raw buffer and reads length bytes through it
Do_RSTRING_PTR ==
    /\ pre' = h
    /\ last' = [NoCall EXCEPT !.op = "RSTRING_PTR", !.n = RSTRING_LEN(Enter(h)),
                              !.b = Prefix(h.bytes, RSTRING_LEN(Enter(h))),
                              !.sid = RSTRING_PTR_IMPL(Enter(h))]
    /\ rawptr' = "valid"
    /\ UNCHANGED <<h, cfg, ext>>

Do_rb_enc_str_coderange ==
    /\ pre' = h
    /\ h' = Leave(host_rb_enc_str_coderange(Enter(h)))
    /\ last' = [NoCall EXCEPT !.op = "rb_enc_str_coderange"]
    /\ UNCHANGED <<rawptr, cfg, ext>>

Next ==
    \/ Do_rb_str_new
    \/ Do_rb_str_buf_new
    \/ Do_rb_str_cat
    \/ Do_rb_str_resize
    \/ Do_rb_str_set_len
    \/ Do_rb_str_modify
    \/ Do_rb_str_modify_expand
    \/ Do_rb_str_replace
    \/ Do_rb_str_drop_bytes
    \/ Do_RSTRING_PTR
    \/ Do_rb_enc_str_coderange

Spec == Init /\ [][Next]_vars

-----------------------------------------------------------------------------
(* State machine of the external-string constructors.  The process-wide    *)
(* default encodings are fixed at startup.  A constructor depends on       *)
(* nothing but its arguments and these defaults, so one call is followed   *)
(* per behaviour: ext records the call and the String it returned.         *)

InitExt ==
    /\ h = NewString(<<>>, "ASCII-8BIT")
    /\ pre = h
    /\ last = NoCall
    /\ rawptr = "none"
    /\ cfg \in [external : Encodings, internal : Encodings \cup {NoEncoding},
                locale : LocaleEncodings, filesystem : LocaleEncodings]
    /\ ext = NoExt

ReturnExt(op, eenc, string, len, m) ==
    /\ ext = NoExt
    /\ ext' = [op |-> op, eenc |-> eenc, mem |-> string.mem, len |-> len,
               str |-> Leave(m), oid |-> m.oid, conv |-> m.conv, err |-> m.err]
    /\ UNCHANGED <<h, pre, last, rawptr, cfg>>

\* foreign memory handed to a constructor; a 0 byte ends a C string early
ForeignBytes == {CharPtr(s) : s \in SeqsOver(Byte \cup {0}, MaxCat)}

Do_rb_external_str_new_with_enc ==
    \E string \in ForeignBytes, eenc \in Encodings :
      \E len \in -1..Len(string.mem) :
        ReturnExt("rb_external_str_new_with_enc", eenc, string, len,
                  rb_external_str_new_with_enc(string, len, eenc, cfg.internal))

Do_rb_external_str_new ==
    \E string \in ForeignBytes :
      \E len \in -1..Len(string.mem) :
        ReturnExt("rb_external_str_new", cfg.external, string, len,
                  rb_external_str_new(string, len, cfg))

Do_rb_external_str_new_cstr ==
    \E string \in ForeignBytes :
        ReturnExt("rb_external_str_new_cstr", cfg.external, string, strlen(string),
                  rb_external_str_new_cstr(string, cfg))

Do_rb_locale_str_new ==
    \E string \in ForeignBytes :
      \E len \in -1..Len(string.mem) :
        ReturnExt("rb_locale_str_new", cfg.locale, string, len,
                  rb_locale_str_new(string, len, cfg))

Do_rb_locale_str_new_cstr ==
    \E string \in ForeignBytes :
        ReturnExt("rb_locale_str_new_cstr", cfg.locale, string, strlen(string),
                  rb_locale_str_new_cstr(string, cfg))

Do_rb_filesystem_str_new ==
    \E string \in ForeignBytes :
      \E len \in -1..Len(string.mem) :
        ReturnExt("rb_filesystem_str_new", cfg.filesystem, string, len,
                  rb_filesystem_str_new(string, len, cfg))

Do_rb_filesystem_str_new_cstr ==
    \E string \in ForeignBytes :
        ReturnExt("rb_filesystem_str_new_cstr", cfg.filesystem, string, strlen(string),
                  rb_filesystem_str_new_cstr(string, cfg))

NextExt ==
    \/ Do_rb_external_str_new_with_enc
    \/ Do_rb_external_str_new
    \/ Do_rb_external_str_new_cstr
    \/ Do_rb_locale_str_new
    \/ Do_rb_locale_str_new_cstr
    \/ Do_rb_filesystem_str_new
    \/ Do_rb_filesystem_str_new_cstr

SpecExt == InitExt /\ [][NextExt]_vars

-----------------------------------------------------------------------------
(* Properties *)

Ok == last.err.kind = "none"

Capacity(s) == Len(s.bytes)

\* C1: in every reachable state, after any sequence of constructions,
\* appends, resizes, expands, set_len, replace and drop_bytes calls, failed
\* ones included, 0 <= length <= capacity.
C1_LengthWithinCapacity == 0 <= h.len /\ h.len <= Capacity(h)

\* a refused rb_str_set_len on a buffer with spare capacity
C1_Witness ==
    /\ last.op = "rb_str_set_len"
    /\ ~Ok
    /\ last.n > Capacity(pre)
    /\ h.len < Capacity(h)

C3_Original ==
    (last.op = "rb_str_modify_expand" /\ 0 <= last.n /\ last.n <= INT_MAX - pre.len) =>
        /\ Ok
        /\ h.len = pre.len
        /\ Content(h) = Content(pre)
        /\ Capacity(h) >= Capacity(pre) + last.n

\* C3 amended: rb_str_modify_expand(h, k) with 0 <= k <= INT_MAX - length
\* keeps the length and the content and ends with capacity at least the
\* LENGTH plus k.
C3_ExpandReservesBeyondLength ==
    (last.op = "rb_str_modify_expand" /\ 0 <= last.n /\ last.n <= INT_MAX - pre.len) =>
        /\ Ok
        /\ h.len = pre.len
        /\ Content(h) = Content(pre)
        /\ Capacity(h) >= pre.len + last.n

\* an expand of a non-empty String that already had spare capacity
C3_Witness ==
    /\ last.op = "rb_str_modify_expand"
    /\ last.n > 0
    /\ Ok
    /\ pre.len > 0
    /\ Capacity(pre) > pre.len
    /\ Capacity(h) > Capacity(pre)

\* C4: rb_str_set_len(h, n) raises the buffer overflow error, carrying n and
\* the capacity, exactly when n < 0 or n > capacity, and then changes
\* nothing; otherwise it sets the length to n and changes neither the stored
\* bytes nor the capacity.
C4_SetLen ==
    last.op = "rb_str_set_len" =>
        IF last.n < 0 \/ last.n > Capacity(pre)
        THEN /\ last.err = RuntimeError(last.n, Capacity(pre))
             /\ h = pre
        ELSE /\ Ok
             /\ h.len = last.n
             /\ h.bytes = pre.bytes

\* rb_str_set_len to exactly the capacity, above the old length
C4_Witness ==
    /\ last.op = "rb_str_set_len"
    /\ last.n = Capacity(pre)
    /\ pre.len < last.n
    /\ h.len = last.n

\* C5: rb_str_cat(h, b, n) with n > 0 leaves length L + n and content c
\* followed by b, whatever the capacity was; with n = 0 it changes nothing.
C5_Append ==
    /\ (last.op = "rb_str_cat" /\ last.n > 0) =>
          /\ Ok
          /\ h.len = pre.len + last.n
          /\ Content(h) = Content(pre) \o last.b
    /\ (last.op = "rb_str_cat" /\ last.n = 0) =>
          /\ Ok
          /\ h = pre

\* an append to a non-empty String with no spare capacity
C5_Witness ==
    /\ last.op = "rb_str_cat"
    /\ last.n > 0
    /\ pre.len > 0
    /\ Capacity(pre) = pre.len
    /\ last.b[1] # pre.bytes[1]
    /\ h.len = pre.len + last.n

ByteMutation ==
    /\ Ok
    /\ \/ last.op \in {"rb_str_resize", "rb_str_modify_expand", "rb_str_replace",
                       "rb_str_drop_bytes", "rb_str_modify"}
       \/ last.op = "rb_str_cat" /\ last.n > 0

\* C6: when an append of at least one byte, a resize, an expand, a replace,
\* a drop_bytes or rb_str_modify returns, the coderange is unknown: a known
\* coderange is never older than the latest of these calls.
C6_CoderangeCleared == ByteMutation => h.cr = "UNKNOWN"

\* rb_str_modify on a String whose coderange had been computed
C6_Witness ==
    /\ last.op = "rb_str_modify"
    /\ pre.cr = "VALID"
    /\ h.cr = "UNKNOWN"

\* C7: rb_str_new and rb_str_cat with a negative length, and
\* rb_str_modify_expand with a negative or too big expansion, raise the
\* argument error and change neither length, capacity, bytes nor coderange.
C7_InvalidSizesRejected ==
    (\/ last.op \in {"rb_str_new", "rb_str_cat"} /\ last.n < 0
     \/ last.op = "rb_str_modify_expand" /\ (last.n < 0 \/ last.n > INT_MAX - pre.len)) =>
        /\ last.err.kind = "rb_eArgError"
        /\ h = pre
        /\ last.sid = 0

\* a too big expansion of a String with a computed coderange
C7_Witness ==
    /\ last.op = "rb_str_modify_expand"
    /\ last.n > INT_MAX - pre.len
    /\ pre.cr = "7BIT"
    /\ h.cr = "7BIT"

\* the external encoding each constructor uses
ExtEncodingOf(op) ==
    CASE op \in {"rb_external_str_new", "rb_external_str_new_cstr"} -> cfg.external
      [] op \in {"rb_locale_str_new", "rb_locale_str_new_cstr"} -> cfg.locale
      [] op \in {"rb_filesystem_str_new", "rb_filesystem_str_new_cstr"} -> cfg.filesystem
      [] OTHER -> ext.eenc

ExtInput == Prefix(ext.mem, ext.len)

\* C8: an external-string constructor given US-ASCII as external encoding
\* and bytes that are not all below 128 returns the String it built, tagged
\* ASCII-8BIT, bytes unchanged, without running the transcoder; in every
\* other case the String is tagged with the external encoding and converted
\* to the default internal encoding, which is the same String, untouched,
\* when the internal encoding is unset or is the external one.
C8_ExternalNormalization ==
    (ext.op # "none" /\ ext.len >= 0) =>
        LET eenc == ExtEncodingOf(ext.op)
            dirty == \E i \in 1..ext.len : ExtInput[i] >= 128
        IN  IF eenc = "US-ASCII" /\ dirty
            THEN /\ ext.err.kind = "none"
                 /\ ext.str.enc = "ASCII-8BIT"
                 /\ Content(ext.str) = ExtInput
                 /\ ext.oid = 0
                 /\ ~ext.conv
            ELSE IF cfg.internal = NoEncoding \/ cfg.internal = eenc
                 THEN /\ ext.err.kind = "none"
                      /\ ext.str.enc = eenc
                      /\ Content(ext.str) = ExtInput
                      /\ ext.oid = 0
                      /\ ~ext.conv
                 ELSE /\ ext.conv
                      /\ ext.err.kind = "none" =>
                            /\ ext.str.enc = cfg.internal
                            /\ ext.oid # 0

\* the locale constructor on the byte 0xFF with a US-ASCII locale
C8_Witness ==
    /\ ext.op = "rb_locale_str_new"
    /\ cfg.locale = "US-ASCII"
    /\ cfg.internal = "UTF-8"
    /\ ext.mem = <<255>>
    /\ ext.len = 1
    /\ ext.str.enc = "ASCII-8BIT"

\* C9: rb_str_drop_bytes(h, n) with n > L succeeds and empties h; with
\* 0 <= n <= L it leaves exactly the bytes c[n..L).
C9_DropBytes ==
    (last.op = "rb_str_drop_bytes" /\ last.n >= 0) =>
        LET n == Min(last.n, pre.len)
        IN  /\ Ok
            /\ h.len = pre.len - n
            /\ Content(h) = SubSeq(Content(pre), n + 1, pre.len)

\* a drop of one byte from a longer String with distinct bytes
C9_Witness ==
    /\ last.op = "rb_str_drop_bytes"
    /\ last.n = 1
    /\ pre.len > 1
    /\ pre.bytes[1] # pre.bytes[2]
    /\ h.len = pre.len - 1

\* C10: the bridge never copies through a raw pointer taken before the
\* storage was last replaced; once an append of at least one byte, a
\* resize, an expand or a replace returned, no pointer handed out earlier is
\* still valid; and the bytes read through a newly obtained pointer are the
\* current content at the current length.
C10_PointerValidity ==
    /\ ~last.ub
    /\ (/\ Ok
        /\ \/ last.op \in {"rb_str_resize", "rb_str_modify_expand", "rb_str_replace"}
           \/ last.op = "rb_str_cat" /\ last.n > 0)
          => rawptr # "valid" /\ last.sid > 0
    /\ last.op = "RSTRING_PTR" =>
          /\ rawptr = "valid"
          /\ last.n = h.len
          /\ last.b = Content(h)

\* an append that grew a String whose raw pointer had been handed out
C10_Witness ==
    /\ last.op = "rb_str_cat"
    /\ last.n > 0
    /\ pre.len > 0
    /\ rawptr = "stale"
    /\ Content(h) = Content(pre) \o last.b

=============================================================================
